---------------------------- MODULE Spec2Model ----------------------------
(***************************************************************************)
(* AVI container engine of format/avi: the two-pass Muxer (WriteHeader,    *)
(* WritePacket, WriteTrailer) over a seekable in-memory sink, and the      *)
(* Demuxer (Streams, ReadPacket) over the bytes the muxer produced.        *)
(* The sink and the source are modelled byte by byte: a file is a sequence *)
(* of bytes 0..255, a FourCC is four ASCII bytes, every integer field is   *)
(* written little-endian at the width the Go struct gives it.              *)
(***************************************************************************)
EXTENDS Integers, Sequences, FiniteSets, TLC

(***************************************************************************)
(* Bounds of the model.                                                    *)
(***************************************************************************)
\* WritePacket calls in one run (accepted or rejected).
MaxPackets == 2
\* The sink may already hold 2*k bytes, k in 0..MaxPrefixWords, when the
\* muxer is created; the write position is at the end of them.
MaxPrefixWords == 1
\* WriteHeader calls in one run.
MaxHeaders == 1
\* Streams calls on one Demuxer.
MaxStreamsCalls == 2
\* Stream numbers given to the chunk ID encoding: 0..MaxStreamNum.
MaxStreamNum == 100
\* Length of the longest prefix given to the probe.
MaxProbeLen == 16
\* Bytes cut from the end of a file given to the Demuxer: 1..MaxCut.
MaxCut == 40
\* Payload size of a chunk of unknown ID put into a file: 0..MaxUnknownSize.
MaxUnknownSize == 3
\* Length of the buffer of a WriterSeeker used on its own.
MaxSeekerLen == 6

(***************************************************************************)
(* Binary primitives (encoding/binary, little endian).                     *)
(***************************************************************************)
\* Any position or size at or above Big is past the end of every file of
\* the model; sizes and positions saturate there.
Big == 2^30

Min(a, b) == IF a < b THEN a ELSE b

Zeros(n) == [i \in 1..n |-> 0]

\* uint16 as two bytes.
LE16(v) == <<v % 256, (v \div 256) % 256>>

\* uint32(v) as four bytes; a negative v wraps to v + 2^32 as the Go
\* conversion uint32(int64) does.
LE32(v) ==
  IF v >= 0
  THEN <<v % 256, (v \div 256) % 256, (v \div 65536) % 256, (v \div 16777216) % 256>>
  ELSE LET w == (v + 2^30) + 2^30
       IN  <<w % 256, (w \div 256) % 256, (w \div 65536) % 256,
             128 + ((w \div 16777216) % 128)>>

\* The uint32 held by four bytes, saturated at Big.
U32(b) ==
  IF b[4] >= 64 THEN Big
  ELSE b[1] + 256 * b[2] + 65536 * b[3] + 16777216 * b[4]

U16(b) == b[1] + 256 * b[2]

\* uint32 subtraction a - 4 of a saturated size: below 4 it wraps to a
\* value near 2^32.
SubU32(a, k) == IF a >= Big \/ a < k THEN Big ELSE a - k

\* Position arithmetic, saturated.
AddPos(a, b) == Min(a + b, Big)

(***************************************************************************)
(* FourCC codes (aviio).                                                   *)
(***************************************************************************)
FourCCRIFF == <<82, 73, 70, 70>>
FourCCAVI  == <<65, 86, 73, 32>>
FourCCLIST == <<76, 73, 83, 84>>
FourCChdrl == <<104, 100, 114, 108>>
FourCCavih == <<97, 118, 105, 104>>
FourCCstrl == <<115, 116, 114, 108>>
FourCCstrh == <<115, 116, 114, 104>>
FourCCstrf == <<115, 116, 114, 102>>
FourCCmovi == <<109, 111, 118, 105>>
FourCCidx1 == <<105, 100, 120, 49>>
FourCCvids == <<118, 105, 100, 115>>
FourCCauds == <<97, 117, 100, 115>>
FourCCH264 == <<72, 50, 54, 52>>
FourCCH265 == <<72, 50, 54, 53>>
Suffixdc == <<100, 99>>
Suffixdb == <<100, 98>>
Suffixwb == <<119, 98>>

AVIIF_KEYFRAME == 16

\* A chunk header: FourCC and uint32 size.
ChunkHeaderBytes(fourCC, size) == fourCC \o LE32(size)

\* Variant of Sprintf02d that pads with a space: fmt.Sprintf("%2d", n).
Sprintf2d(n) ==
  IF n < 0 THEN <<45, 48 + (0 - n)>>
  ELSE IF n < 10 THEN <<32, 48 + n>>
  ELSE IF n < 100 THEN <<48 + (n \div 10), 48 + (n % 10)>>
  ELSE <<48 + (n \div 100), 48 + ((n \div 10) % 10), 48 + (n % 10)>>

\* fmt.Sprintf("%02d", n) for -9 <= n <= 999: two characters up to 99,
\* three from 100 on.
Sprintf02d(n) ==
  IF n < 0 THEN <<45, 48 + (0 - n)>>
  ELSE IF n < 100 THEN <<48 + (n \div 10), 48 + (n % 10)>>
  ELSE <<48 + (n \div 100), 48 + ((n \div 10) % 10), 48 + (n % 10)>>

(***************************************************************************)
(* Codec descriptors (av.CodecData). A descriptor is a record: its codec   *)
(* type, its extradata bytes (AVCDecoderConfRecordBytes or                 *)
(* MPEG4AudioConfigBytes), and what its parameter sets give: width,        *)
(* height, fps (0 when the SPS is absent), sample rate and channels.       *)
(***************************************************************************)
VideoTypes == {"H264", "H265", "JPEG"}
AudioTypes == {"AAC", "PCM_MULAW", "PCM_ALAW", "OPUS"}

IsVideo(t) == t \in VideoTypes
IsAudio(t) == t \in AudioTypes

Desc(t, e, w, h, f, r, c) ==
  [type |-> t, extra |-> e, width |-> w, height |-> h, fps |-> f,
   rate |-> r, channels |-> c]

\* &h264parser.CodecData{} of the tests: no record, no SPS.
H264Bare == Desc("H264", <<>>, 0, 0, 0, 0, 0)
\* H.264 with a decoder configuration record of even and of odd length.
H264Even == Desc("H264", <<1, 100>>, 64, 48, 25, 0, 0)
H264Odd  == Desc("H264", <<1, 100, 31>>, 64, 48, 25, 0, 0)
H265Even == Desc("H265", <<1, 33>>, 0, 0, 0, 0, 0)
AACStereo == Desc("AAC", <<17, 144>>, 0, 0, 0, 48000, 2)
MulawDesc == Desc("PCM_MULAW", <<>>, 0, 0, 0, 8000, 1)
\* Descriptors of codecs the muxer has no FourCC or format tag for.
JPEGDesc == Desc("JPEG", <<>>, 0, 0, 0, 0, 0)
OpusDesc == Desc("OPUS", <<>>, 0, 0, 0, 48000, 2)

\* The descriptor lists WriteHeader is given in the model.
DescLists ==
  { <<H264Bare>>, <<H264Even>>, <<H264Odd>>, <<H265Even>>,
    <<H264Even, AACStereo>>, <<AACStereo, H264Even>>, <<MulawDesc>>, <<>>,
    <<JPEGDesc>>, <<OpusDesc>>, <<H264Even, OpusDesc>>,
    <<H264Even, H265Even>> }

\* The payloads WritePacket is given in the model: empty, odd and even.
Payloads == { <<>>, <<7>>, <<8, 9>> }

\* av.Packet as WritePacket reads it.
Packets ==
  [Idx : {-1, 0, 1}, IsKeyFrame : BOOLEAN, Data : Payloads]


(***************************************************************************)
(* State.                                                                  *)
(***************************************************************************)
VARIABLES
  ws,        \* the sink: [buf, pos], a seekable byte buffer
  m,         \* the Muxer's fields
  phase,     \* "mux": the muxer is in use; "closed": WriteTrailer returned;
             \* "demux": a Demuxer reads the produced bytes
  lastOp,    \* the last call and what it returned
  written,   \* history: the WritePacket calls that returned nil, in order
  nPackets,  \* history: WritePacket calls so far
  nHeaders,  \* history: WriteHeader calls so far
  r,         \* the Demuxer's source: [data, pos]
  d,         \* the Demuxer's fields
  got,       \* history: what each ReadPacket call returned, in order
  nStreams,  \* history: Streams calls so far
  under      \* the io.Writer below a WriterSeeker: whether the sink is a
             \* WriterSeeker at all, and the Write calls that writer received

vars ==
  <<ws, m, phase, lastOp, written, nPackets, nHeaders, r, d, got, nStreams, under>>

(***************************************************************************)
(* The sink: BytesWriteSeeker / WriterSeeker, a bytes.Buffer with a        *)
(* position.                                                               *)
(***************************************************************************)
\* Variant of SinkWrite that appends whatever the position is.
SinkWriteAppendOnly(w, p) == [buf |-> w.buf \o p, pos |-> w.pos + Len(p)]

\* Write: inside the buffer it overwrites in place; otherwise the bytes are
\* appended to the buffer and the position moves on by their number.
SinkWrite(w, p) ==
  IF w.pos # Len(w.buf) /\ w.pos + Len(p) <= Len(w.buf)
  THEN [buf |-> [i \in 1..Len(w.buf) |->
                   IF i > w.pos /\ i <= w.pos + Len(p) THEN p[i - w.pos]
                   ELSE w.buf[i]],
        pos |-> w.pos + Len(p)]
  ELSE [buf |-> w.buf \o p, pos |-> w.pos + Len(p)]

\* A sink that is no WriterSeeker has no writer below it.
NoWriter == [attached |-> FALSE, writes |-> <<>>]

\* Seek(offset, io.SeekStart).
SinkSeek(w, offset) == [w EXCEPT !.pos = offset]

\* The writes of a sequence of byte strings, one Write call each.
RECURSIVE SinkWriteAll(_, _)
SinkWriteAll(w, ps) ==
  IF ps = <<>> THEN w ELSE SinkWriteAll(SinkWrite(w, Head(ps)), Tail(ps))

(***************************************************************************)
(* Muxer.                                                                  *)
(***************************************************************************)
NewMuxer ==
  [codecData |-> <<>>, videoStreamIdx |-> -1, audioStreamIdx |-> -1,
   hasVideo |-> FALSE, hasAudio |-> FALSE, frameCount |-> 0,
   indexEntries |-> <<>>, moviListPos |-> 0, headerPos |-> 0,
   dataSize |-> 0, fps |-> 0, width |-> 0, height |-> 0,
   audioSampleRate |-> 0]

\* WriteHeader's loop over the descriptors, from descriptor i (0-based) on.
RECURSIVE IdentifyStreams(_, _, _)
IdentifyStreams(mx, cds, i) ==
  IF i >= Len(cds) THEN mx
  ELSE
    LET cd == cds[i + 1]
        m1 ==
          IF IsVideo(cd.type)
          THEN LET mv == [mx EXCEPT !.videoStreamIdx = i, !.hasVideo = TRUE]
               IN  CASE cd.type = "H264" /\ cd.width > 0 ->
                          [mv EXCEPT !.width = cd.width, !.height = cd.height,
                                     !.fps = cd.fps]
                     [] cd.type = "H265" ->
                          [mv EXCEPT !.width = 1920, !.height = 1080, !.fps = 25]
                     [] OTHER -> mv
          ELSE IF IsAudio(cd.type)
          THEN LET ma == [mx EXCEPT !.audioStreamIdx = i, !.hasAudio = TRUE]
               IN  CASE cd.type = "AAC" -> [ma EXCEPT !.audioSampleRate = cd.rate]
                     [] cd.type \in {"PCM_MULAW", "PCM_ALAW"} ->
                          [ma EXCEPT !.audioSampleRate = 8000]
                     [] OTHER -> ma
          ELSE mx
    IN  IdentifyStreams(m1, cds, i + 1)

\* writeMainHeader: the avih chunk, 8 + 56 bytes.
writeMainHeader(mx) ==
  ChunkHeaderBytes(FourCCavih, 56)
    \o LE32(1000000 \div mx.fps) \o LE32(0) \o LE32(0) \o LE32(16)
    \o LE32(0) \o LE32(0) \o LE32(Len(mx.codecData)) \o LE32(1048576)
    \o LE32(mx.width) \o LE32(mx.height) \o Zeros(16)

\* aviio.WriteStreamHeader: the 56 bytes of a StreamHeader.
StreamHeaderBytes(type, handler, scale, rate, bufSize, frame) ==
  type \o handler \o LE32(0) \o LE16(0) \o LE16(0) \o LE32(0)
    \o LE32(scale) \o LE32(rate) \o LE32(0) \o LE32(0) \o LE32(bufSize)
    \o LE32(10000) \o LE32(0) \o frame

\* writeVideoFormat: the strf chunk of a video stream. The extradata follows
\* the BitmapInfoHeader and nothing follows the extradata.
writeVideoFormat(mx, codec) ==
  LET compression == CASE codec.type = "H264" -> FourCCH264
                       [] codec.type = "H265" -> FourCCH265
                       [] OTHER -> LE32(0)
      extraData == IF codec.type \in {"H264", "H265"} THEN codec.extra ELSE <<>>
  IN  ChunkHeaderBytes(FourCCstrf, 40 + Len(extraData))
        \o LE32(40) \o LE32(mx.width) \o LE32(mx.height) \o LE16(1) \o LE16(24)
        \o compression \o LE32(mx.width * mx.height * 3)
        \o LE32(0) \o LE32(0) \o LE32(0) \o LE32(0)
        \o extraData

\* writeVideoStreamHeader: strh and strf of the video stream.
writeVideoStreamHeader(mx, streamIdx) ==
  LET codec == mx.codecData[streamIdx + 1]
      handler == CASE codec.type = "H264" -> FourCCH264
                   [] codec.type = "H265" -> FourCCH265
                   [] OTHER -> LE32(0)
  IN  ChunkHeaderBytes(FourCCstrh, 56)
        \o StreamHeaderBytes(FourCCvids, handler, 1, mx.fps, 1048576,
             LE16(0) \o LE16(0) \o LE16(mx.width % 65536) \o LE16(mx.height % 65536))
        \o writeVideoFormat(mx, codec)

\* writeAudioFormat: the strf chunk of an audio stream.
writeAudioFormat(mx, codec) ==
  LET isAAC == codec.type = "AAC"
      isG711 == codec.type \in {"PCM_MULAW", "PCM_ALAW"}
      formatTag == CASE codec.type = "AAC" -> 255
                     [] codec.type = "PCM_MULAW" -> 7
                     [] codec.type = "PCM_ALAW" -> 6
                     [] OTHER -> 0
      channels == IF isAAC THEN codec.channels ELSE 2
      bitsPerSample == IF isG711 THEN 8 ELSE 16
      samplesPerSec == IF isAAC THEN codec.rate
                       ELSE IF isG711 THEN mx.audioSampleRate ELSE 0
      extraData == IF isAAC THEN codec.extra ELSE <<>>
      blockAlign == ((channels * bitsPerSample) % 65536) \div 8
      avgBytesPerSec == samplesPerSec * blockAlign
  IN  ChunkHeaderBytes(FourCCstrf, 18 + Len(extraData))
        \o LE16(formatTag) \o LE16(channels) \o LE32(samplesPerSec)
        \o LE32(avgBytesPerSec) \o LE16(blockAlign) \o LE16(bitsPerSample)
        \o LE16(Len(extraData))
        \o extraData

\* writeAudioStreamHeader: strh and strf of the audio stream.
writeAudioStreamHeader(mx, streamIdx) ==
  LET codec == mx.codecData[streamIdx + 1]
  IN  ChunkHeaderBytes(FourCCstrh, 56)
        \o StreamHeaderBytes(FourCCauds, LE32(0), 1, mx.audioSampleRate, 65536,
             Zeros(8))
        \o writeAudioFormat(mx, codec)

\* writeStreamHeaders: one LIST 'strl', its size taken from the buffered
\* contents.
writeStreamHeaders(mx, streamIdx, isVideo) ==
  LET streamBuf == IF isVideo THEN writeVideoStreamHeader(mx, streamIdx)
                   ELSE writeAudioStreamHeader(mx, streamIdx)
  IN  ChunkHeaderBytes(FourCCLIST, Len(streamBuf) + 4) \o FourCCstrl \o streamBuf

\* writeHeaderList: the Write calls that emit LIST 'hdrl': avih, then the
\* video stream's strl if there is a video stream, then the audio stream's.
writeHeaderList(mx) ==
  LET headerBuf ==
        writeMainHeader(mx)
          \o (IF mx.hasVideo THEN writeStreamHeaders(mx, mx.videoStreamIdx, TRUE)
              ELSE <<>>)
          \o (IF mx.hasAudio THEN writeStreamHeaders(mx, mx.audioStreamIdx, FALSE)
              ELSE <<>>)
  IN  << ChunkHeaderBytes(FourCCLIST, Len(headerBuf) + 4), FourCChdrl, headerBuf >>

\* m.codecData[streamIdx] of writeVideoStreamHeader / writeAudioStreamHeader
\* is in range (otherwise the Go runtime panics).
HeaderIndexOK(mx) ==
  /\ mx.hasVideo => mx.videoStreamIdx < Len(mx.codecData)
  /\ mx.hasAudio => mx.audioStreamIdx < Len(mx.codecData)

\* The muxer's fields after WriteHeader(cds) on a sink at position pos.
HeaderFields(mx, cds) ==
  LET m1 == IdentifyStreams([mx EXCEPT !.codecData = cds], cds, 0)
  IN  IF m1.fps = 0 THEN [m1 EXCEPT !.fps = 25] ELSE m1

\* writeFileHeaders: RIFF with size 0, 'AVI ', LIST 'hdrl', then the header
\* of LIST 'movi' with size 0. headerPos and moviListPos are the sink's
\* positions before RIFF and before the movi LIST header.
writeFileHeaders(w, mx) ==
  LET w1 == SinkWriteAll(w, << ChunkHeaderBytes(FourCCRIFF, 0), FourCCAVI >>
                              \o writeHeaderList(mx))
  IN  [ws |-> SinkWriteAll(w1, << ChunkHeaderBytes(FourCCLIST, 0), FourCCmovi >>),
       headerPos |-> w.pos,
       moviListPos |-> w1.pos]

WriteHeader(cds) ==
  /\ phase = "mux"
  /\ nHeaders < MaxHeaders
  /\ nHeaders' = nHeaders + 1
  /\ LET m1 == HeaderFields(m, cds)
         out == writeFileHeaders(ws, m1)
     IN  IF HeaderIndexOK(m1)
         THEN /\ m' = [m1 EXCEPT !.headerPos = out.headerPos,
                                 !.moviListPos = out.moviListPos]
              /\ ws' = out.ws
              /\ lastOp' = [op |-> "WriteHeader", res |-> "ok"]
              /\ phase' = phase
         ELSE /\ m' = [m1 EXCEPT !.headerPos = ws.pos]
              /\ ws' = SinkWriteAll(ws, << ChunkHeaderBytes(FourCCRIFF, 0),
                                          FourCCAVI >>)
              /\ lastOp' = [op |-> "WriteHeader", res |-> "panic"]
              /\ phase' = "crashed"
  /\ UNCHANGED <<written, nPackets, r, d, got, nStreams, under>>

\* The chunk ID WritePacket picks: the video branch is tried first.
PacketIsVideo(mx, pkt) == pkt.Idx = mx.videoStreamIdx
PacketIsAudio(mx, pkt) == ~PacketIsVideo(mx, pkt) /\ pkt.Idx = mx.audioStreamIdx

\* Variant of PacketChunkID that marks key frames in the chunk ID: 'db' for
\* a key frame, 'dc' for any other video frame.
PacketChunkIDByKeyFrame(mx, pkt) ==
  IF PacketIsVideo(mx, pkt)
  THEN Sprintf02d(pkt.Idx) \o (IF pkt.IsKeyFrame THEN Suffixdb ELSE Suffixdc)
  ELSE Sprintf02d(pkt.Idx) \o Suffixwb

PacketChunkID(mx, pkt) ==
  IF PacketIsVideo(mx, pkt) THEN Sprintf02d(pkt.Idx) \o Suffixdc
  ELSE Sprintf02d(pkt.Idx) \o Suffixwb

\* Variant of PacketIndexEntry whose Size counts the pad byte.
PacketIndexEntryPadded(mx, pkt, currentPos) ==
  [ChunkID |-> PacketChunkID(mx, pkt),
   Flags |-> IF pkt.IsKeyFrame THEN AVIIF_KEYFRAME ELSE 0,
   Offset |-> currentPos - mx.moviListPos - 12,
   Size |-> Len(pkt.Data) + (Len(pkt.Data) % 2)]

\* The index entry WritePacket records for a packet written at currentPos.
\* Offset is the uint32 currentPos - moviListPos - 12, kept as the signed
\* 32-bit word (a negative value stands for that value + 2^32).
PacketIndexEntry(mx, pkt, currentPos) ==
  [ChunkID |-> PacketChunkID(mx, pkt),
   Flags |-> IF pkt.IsKeyFrame THEN AVIIF_KEYFRAME ELSE 0,
   Offset |-> currentPos - mx.moviListPos - 12,
   Size |-> Len(pkt.Data)]

\* The Write calls of WritePacket: chunk header, payload, one pad byte after
\* a payload of odd length.
PacketWrites(mx, pkt) ==
  << ChunkHeaderBytes(PacketChunkID(mx, pkt), Len(pkt.Data)), pkt.Data >>
    \o (IF Len(pkt.Data) % 2 = 1 THEN << <<0>> >> ELSE << >>)

\* dataSize after the packet: 8 + payload + pad more.
PacketDataSize(mx, pkt) ==
  mx.dataSize + 8 + Len(pkt.Data) + (IF Len(pkt.Data) % 2 = 1 THEN 1 ELSE 0)

\* The muxer's fields after WritePacket accepted pkt at currentPos.
PacketFields(mx, pkt, currentPos) ==
  [mx EXCEPT
     !.indexEntries = Append(@, PacketIndexEntry(mx, pkt, currentPos)),
     !.dataSize = PacketDataSize(mx, pkt),
     !.frameCount = IF PacketIsVideo(mx, pkt) THEN @ + 1 ELSE @]

WritePacket(pkt) ==
  /\ phase = "mux"
  /\ nPackets < MaxPackets
  /\ nPackets' = nPackets + 1
  /\ IF PacketIsVideo(m, pkt) \/ PacketIsAudio(m, pkt)
     THEN /\ m' = PacketFields(m, pkt, ws.pos)
          /\ ws' = SinkWriteAll(ws, PacketWrites(m, pkt))
          /\ written' = Append(written,
                          [Idx |-> pkt.Idx, IsKeyFrame |-> pkt.IsKeyFrame,
                           Data |-> pkt.Data, pos |-> ws.pos,
                           video |-> PacketIsVideo(m, pkt),
                           headers |-> nHeaders])
          /\ lastOp' = [op |-> "WritePacket", res |-> "ok", pkt |-> pkt]
     ELSE /\ UNCHANGED <<m, ws, written>>
          /\ lastOp' = [op |-> "WritePacket", res |-> "error", pkt |-> pkt]
  /\ UNCHANGED <<phase, nHeaders, r, d, got, nStreams, under>>

\* WritePacket on a sink whose Write returns an error after accepting k of
\* the call's Write calls (the refused Write stores nothing): the index
\* entry was appended before the first Write, dataSize and frameCount are
\* updated after the last, and the error is returned in between.
WritePacketFails(pkt, k) ==
  /\ phase = "mux"
  /\ nPackets < MaxPackets
  /\ PacketIsVideo(m, pkt) \/ PacketIsAudio(m, pkt)
  /\ k < Len(PacketWrites(m, pkt))
  /\ nPackets' = nPackets + 1
  /\ m' = [m EXCEPT !.indexEntries = Append(@, PacketIndexEntry(m, pkt, ws.pos))]
  /\ ws' = SinkWriteAll(ws, SubSeq(PacketWrites(m, pkt), 1, k))
  /\ lastOp' = [op |-> "WritePacket", res |-> "error", pkt |-> pkt]
  /\ UNCHANGED <<phase, written, nHeaders, r, d, got, nStreams, under>>

\* writeIndex: the idx1 chunk header, then one Write per entry.
IndexEntryBytes(e) ==
  e.ChunkID \o LE32(e.Flags) \o LE32(e.Offset) \o LE32(e.Size)

writeIndex(w, mx) ==
  SinkWriteAll(w, << ChunkHeaderBytes(FourCCidx1, Len(mx.indexEntries) * 16) >>
                    \o [i \in 1..Len(mx.indexEntries) |->
                          IndexEntryBytes(mx.indexEntries[i])])

\* updateUint32At: seek to offset, write the value, seek back.
updateUint32At(w, offset, value) ==
  SinkSeek(SinkWrite(SinkSeek(w, offset), LE32(value)), w.pos)

\* The offset at which WriteTrailer patches the RIFF size.
RiffSizePos(mx) == 4

\* Variant of TotalFramesPos that ignores the header position.
TotalFramesPosAbsolute(mx) == 48

\* The offset at which WriteTrailer patches the frame count.
TotalFramesPos(mx) == mx.headerPos + 48

\* WriterSeeker.Flush: one Write of the whole buffer to the writer below.
Flush(u, w) == [u EXCEPT !.writes = Append(@, w.buf)]

\* The sink after WriteTrailer's writes: the index, then the three patches.
TrailerSink(w, mx) ==
  LET w1 == writeIndex(w, mx)
      totalSize == w1.pos - 8
      w2 == updateUint32At(w1, RiffSizePos(mx), totalSize)
      w3 == updateUint32At(w2, mx.moviListPos + 4, mx.dataSize + 4)
  IN  updateUint32At(w3, TotalFramesPos(mx), mx.frameCount)

WriteTrailer ==
  /\ phase = "mux"
  /\ ws' = TrailerSink(ws, m)
  /\ under' = IF under.attached THEN Flush(under, TrailerSink(ws, m)) ELSE under
  /\ phase' = "closed"
  /\ lastOp' = [op |-> "WriteTrailer", res |-> "ok"]
  /\ UNCHANGED <<m, written, nPackets, nHeaders, r, d, got, nStreams>>

(***************************************************************************)
(* The source: a bytes.Reader. A read that cannot be filled returns an     *)
(* error and leaves the reader at the end of the data.                     *)
(***************************************************************************)
ReadFull(data, pos, n) ==
  IF n = 0 THEN [ok |-> TRUE, bytes |-> <<>>, pos |-> pos]
  ELSE IF pos + n <= Len(data)
  THEN [ok |-> TRUE, bytes |-> SubSeq(data, pos + 1, pos + n), pos |-> pos + n]
  ELSE [ok |-> FALSE, bytes |-> <<>>,
        pos |-> IF pos < Len(data) THEN Len(data) ELSE pos]

\* Variant of ReadChunkHeader after which no pad byte is ever skipped.
ReadChunkHeaderNoPad(data, pos) ==
  LET rd == ReadFull(data, pos, 8)
  IN  IF rd.ok
      THEN [ok |-> TRUE, pos |-> rd.pos, FourCC |-> SubSeq(rd.bytes, 1, 4),
            Size |-> U32(SubSeq(rd.bytes, 5, 8)), odd |-> FALSE]
      ELSE [ok |-> FALSE, pos |-> rd.pos, FourCC |-> <<>>, Size |-> 0,
            odd |-> FALSE]

\* aviio.ReadChunkHeader: FourCC, size, and whether the size is odd.
ReadChunkHeader(data, pos) ==
  LET rd == ReadFull(data, pos, 8)
  IN  IF rd.ok
      THEN [ok |-> TRUE, pos |-> rd.pos, FourCC |-> SubSeq(rd.bytes, 1, 4),
            Size |-> U32(SubSeq(rd.bytes, 5, 8)), odd |-> rd.bytes[5] % 2 = 1]
      ELSE [ok |-> FALSE, pos |-> rd.pos, FourCC |-> <<>>, Size |-> 0,
            odd |-> FALSE]

(***************************************************************************)
(* The codec parsers the demuxer calls (h264parser, h265parser, aacparser, *)
(* codec). A record parses when it is the record of a descriptor; the      *)
(* result is that descriptor.                                              *)
(***************************************************************************)
\* A nil av.CodecData, and a nil []av.CodecData.
NilCodec == [type |-> "nil"]
NilStreams == [nil |-> TRUE, list |-> <<>>]

KnownDescs == {H264Even, H264Odd, H265Even, AACStereo}

ParseRecord(t, extra) ==
  IF \E c \in KnownDescs : c.type = t /\ c.extra = extra
  THEN CHOOSE c \in KnownDescs : c.type = t /\ c.extra = extra
  ELSE [type |-> "err"]

\* &h264parser.CodecData{} / &h265parser.CodecData{}.
BareVideo(t) == Desc(t, <<>>, 0, 0, 0, 0, 0)

\* The AAC descriptor synthesized from WaveFormatEx: stereo, AAC-LC.
DefaultAAC(samplesPerSec) == Desc("AAC", <<>>, 0, 0, 0, samplesPerSec, 2)

\* The codec data parseStrlList builds from the payload of a video strf.
VideoCodecData(data) ==
  LET compression == SubSeq(data, 17, 20)
      t == IF compression \in {<<72, 50, 54, 52>>, <<104, 50, 54, 52>>,
                               <<97, 118, 99, 49>>, <<65, 86, 67, 49>>}
           THEN "H264"
           ELSE IF compression \in {<<72, 50, 54, 53>>, <<104, 50, 54, 53>>,
                                    <<104, 118, 99, 49>>, <<72, 86, 67, 49>>,
                                    <<104, 101, 118, 99>>, <<72, 69, 86, 67>>}
           THEN "H265"
           ELSE "none"
  IN  IF t = "none" THEN NilCodec
      ELSE IF Len(data) > 40
           THEN LET c == ParseRecord(t, SubSeq(data, 41, Len(data)))
                IN  IF c.type = "err" THEN BareVideo(t) ELSE c
           ELSE BareVideo(t)

\* The codec data parseStrlList builds from the payload of an audio strf.
AudioCodecData(data) ==
  LET formatTag == U16(SubSeq(data, 1, 2))
      samplesPerSec == U32(SubSeq(data, 5, 8))
      cbSize == U16(SubSeq(data, 17, 18))
  IN  CASE formatTag = 255 ->
             IF Len(data) > 18 /\ cbSize > 0
             THEN LET c == ParseRecord("AAC", SubSeq(data, 19, Len(data)))
                  IN  IF c.type = "err" THEN DefaultAAC(samplesPerSec) ELSE c
             ELSE DefaultAAC(samplesPerSec)
        [] formatTag = 7 -> Desc("PCM_MULAW", <<>>, 0, 0, 0, 8000, 1)
        [] formatTag = 6 -> Desc("PCM_ALAW", <<>>, 0, 0, 0, 8000, 1)
        [] OTHER -> NilCodec

(***************************************************************************)
(* Demuxer: header parse. A parse state is [pos, d, err]: the reader's     *)
(* position, the Demuxer's fields, and whether an error was returned.      *)
(***************************************************************************)
NewDemuxer ==
  [streams |-> NilStreams, mainHeader |-> [TotalFrames |-> 0, Streams |-> 0],
   streamInfos |-> <<>>,
   indexEntries |-> <<>>, moviOffset |-> 0, currentFrame |-> 0]

NewStreamInfo(n) ==
  [streamHeader |-> [Type |-> <<0, 0, 0, 0>>, Scale |-> 0, Rate |-> 0],
   codecData |-> NilCodec, isVideo |-> FALSE,
   isAudio |-> FALSE, streamIndex |-> n]

Fail(st, pos) == [st EXCEPT !.pos = pos, !.err = TRUE]

\* The loop of parseStrlList: st is the parse state, info the stream being
\* built, bytesRead and endPos the loop's counters.
RECURSIVE parseStrlLoop(_, _, _, _, _)
parseStrlLoop(data, st, info, bytesRead, endPos) ==
  IF bytesRead >= endPos
  THEN IF info.codecData.type # "nil"
       THEN [st EXCEPT !.d.streamInfos = Append(@, info)]
       ELSE st
  ELSE
    LET h == ReadChunkHeader(data, st.pos)
        next(pos, inf) ==
          parseStrlLoop(data,
                        [st EXCEPT !.pos = IF h.odd THEN AddPos(pos, 1) ELSE pos],
                        inf,
                        AddPos(AddPos(bytesRead + 8, h.Size), IF h.odd THEN 1 ELSE 0),
                        endPos)
    IN  IF ~h.ok THEN Fail(st, h.pos)
        ELSE IF h.FourCC = FourCCstrh
        THEN LET rd == ReadFull(data, h.pos, 56)
             IN  IF ~rd.ok THEN Fail(st, rd.pos)
                 ELSE next(rd.pos,
                           [info EXCEPT
                              !.streamHeader =
                                 [Type |-> SubSeq(rd.bytes, 1, 4),
                                  Scale |-> U32(SubSeq(rd.bytes, 21, 24)),
                                  Rate |-> U32(SubSeq(rd.bytes, 25, 28))],
                              !.isVideo = SubSeq(rd.bytes, 1, 4) = FourCCvids,
                              !.isAudio = SubSeq(rd.bytes, 1, 4) = FourCCauds])
        ELSE IF h.FourCC = FourCCstrf
        THEN LET rd == ReadFull(data, h.pos, h.Size)
             IN  IF ~rd.ok THEN Fail(st, rd.pos)
                 ELSE IF info.isVideo
                 THEN IF Len(rd.bytes) < 40 THEN Fail(st, rd.pos)
                      ELSE next(rd.pos,
                                [info EXCEPT !.codecData = VideoCodecData(rd.bytes)])
                 ELSE IF info.isAudio
                 THEN IF Len(rd.bytes) < 18 THEN Fail(st, rd.pos)
                      ELSE next(rd.pos,
                                [info EXCEPT !.codecData = AudioCodecData(rd.bytes)])
                 ELSE next(rd.pos, info)
        ELSE next(AddPos(h.pos, h.Size), info)

parseStrlList(data, st, size) ==
  parseStrlLoop(data, st, NewStreamInfo(Len(st.d.streamInfos)), 0, size)

\* The loop of parseHdrlList.
RECURSIVE parseHdrlLoop(_, _, _, _)
parseHdrlLoop(data, st, bytesRead, endPos) ==
  IF bytesRead >= endPos THEN st
  ELSE
    LET h == ReadChunkHeader(data, st.pos)
        next(s2) ==
          IF s2.err THEN s2
          ELSE parseHdrlLoop(data,
                 [s2 EXCEPT !.pos = IF h.odd THEN AddPos(@, 1) ELSE @],
                 AddPos(AddPos(bytesRead + 8, h.Size), IF h.odd THEN 1 ELSE 0),
                 endPos)
    IN  IF ~h.ok THEN Fail(st, h.pos)
        ELSE IF h.FourCC = FourCCavih
        THEN LET rd == ReadFull(data, h.pos, 56)
             IN  IF ~rd.ok THEN Fail(st, rd.pos)
                 ELSE next([st EXCEPT !.pos = rd.pos,
                                      !.d.mainHeader =
                                         [TotalFrames |-> U32(SubSeq(rd.bytes, 17, 20)),
                                          Streams |-> U32(SubSeq(rd.bytes, 25, 28))]])
        ELSE IF h.FourCC = FourCCLIST
        THEN LET rd == ReadFull(data, h.pos, 4)
             IN  IF ~rd.ok THEN Fail(st, rd.pos)
                 ELSE IF rd.bytes = FourCCstrl
                 THEN next(parseStrlList(data, [st EXCEPT !.pos = rd.pos],
                                         SubU32(h.Size, 4)))
                 ELSE next([st EXCEPT !.pos = AddPos(rd.pos, SubU32(h.Size, 4))])
        ELSE next([st EXCEPT !.pos = AddPos(h.pos, h.Size)])

parseHdrlList(data, st, size) == parseHdrlLoop(data, st, 0, size)

\* parseIndex: size / 16 entries are allocated, then read one by one; a
\* short read returns the error with the entries not yet read left zero.
ZeroEntry == [ChunkID |-> <<0, 0, 0, 0>>, Flags |-> 0, Offset |-> 0, Size |-> 0]

ReadIndexEntry(bytes) ==
  [ChunkID |-> SubSeq(bytes, 1, 4), Flags |-> U32(SubSeq(bytes, 5, 8)),
   Offset |-> U32(SubSeq(bytes, 9, 12)), Size |-> U32(SubSeq(bytes, 13, 16))]

parseIndex(data, st, size) ==
  LET numEntries == size \div 16
      avail == IF st.pos >= Len(data) THEN 0 ELSE (Len(data) - st.pos) \div 16
      nRead == Min(numEntries, avail)
      entries == [i \in 1..numEntries |->
                    IF i <= nRead
                    THEN ReadIndexEntry(SubSeq(data, st.pos + 16 * (i - 1) + 1,
                                               st.pos + 16 * i))
                    ELSE ZeroEntry]
  IN  IF nRead = numEntries
      THEN [st EXCEPT !.pos = st.pos + 16 * numEntries, !.d.indexEntries = entries]
      ELSE [st EXCEPT !.pos = ReadFull(data, st.pos + 16 * nRead, 16).pos,
                      !.d.indexEntries = entries, !.err = TRUE]

\* The loop of parseHeaders over the top-level chunks.
RECURSIVE parseHeaders(_, _)
parseHeaders(data, st) ==
  LET h == ReadChunkHeader(data, st.pos)
      next(s2) ==
        IF s2.err THEN s2
        ELSE parseHeaders(data, [s2 EXCEPT !.pos = IF h.odd THEN AddPos(@, 1) ELSE @])
  IN  IF ~h.ok THEN Fail(st, h.pos)
      ELSE IF h.FourCC = FourCCLIST
      THEN LET rd == ReadFull(data, h.pos, 4)
           IN  IF ~rd.ok THEN Fail(st, rd.pos)
               ELSE IF rd.bytes = FourCChdrl
               THEN next(parseHdrlList(data, [st EXCEPT !.pos = rd.pos],
                                       SubU32(h.Size, 4)))
               ELSE IF rd.bytes = FourCCmovi
               THEN next([st EXCEPT !.d.moviOffset = rd.pos,
                                    !.pos = AddPos(rd.pos, SubU32(h.Size, 4))])
               ELSE next([st EXCEPT !.pos = AddPos(rd.pos, SubU32(h.Size, 4))])
      ELSE IF h.FourCC = FourCCidx1
      THEN parseIndex(data, [st EXCEPT !.pos = h.pos], h.Size)
      ELSE next([st EXCEPT !.pos = AddPos(h.pos, h.Size)])

(***************************************************************************)
(* Demuxer: the calls.                                                     *)
(***************************************************************************)
\* NewDemuxer over the bytes the muxer produced, from the RIFF header on.
Open ==
  /\ phase = "closed"
  /\ phase' = "demux"
  /\ r' = [data |-> SubSeq(ws.buf, m.headerPos + 1, Len(ws.buf)), pos |-> 0]
  /\ d' = NewDemuxer
  /\ lastOp' = [op |-> "NewDemuxer", res |-> "ok"]
  /\ UNCHANGED <<ws, m, written, nPackets, nHeaders, got, nStreams, under>>

\* The parse of Streams on a Demuxer whose streams are still nil: the RIFF
\* header, the 'AVI ' signature, then parseHeaders.
StreamsParse(data, dm, pos) ==
  LET st0 == [pos |-> pos, d |-> dm, err |-> FALSE]
      h == ReadChunkHeader(data, pos)
      sig == ReadFull(data, h.pos, 4)
  IN  IF ~h.ok THEN Fail(st0, h.pos)
      ELSE IF h.FourCC # FourCCRIFF THEN Fail(st0, h.pos)
      ELSE IF ~sig.ok THEN Fail(st0, sig.pos)
      ELSE IF sig.bytes # FourCCAVI THEN Fail(st0, sig.pos)
      ELSE parseHeaders(data, [st0 EXCEPT !.pos = sig.pos])

\* d.streams as Streams builds it from the resolved stream infos.
BuildStreams(infos) == [i \in 1..Len(infos) |-> infos[i].codecData]

\* Variant of StreamsCached that takes an empty list for no list.
StreamsCachedNonEmpty(dm) == ~dm.streams.nil /\ dm.streams.list # <<>>

\* d.streams != nil: an earlier call succeeded.
StreamsCached(dm) == ~dm.streams.nil

Streams ==
  /\ phase = "demux"
  /\ nStreams < MaxStreamsCalls
  /\ nStreams' = nStreams + 1
  /\ IF StreamsCached(d)
     THEN /\ UNCHANGED <<r, d>>
          /\ lastOp' = [op |-> "Streams", res |-> "ok", streams |-> d.streams.list]
     ELSE LET st == StreamsParse(r.data, d, r.pos)
          IN  /\ r' = [r EXCEPT !.pos = st.pos]
              /\ IF st.err
                 THEN /\ d' = st.d
                      /\ lastOp' = [op |-> "Streams", res |-> "error"]
                 ELSE /\ d' = [st.d EXCEPT !.streams = [nil |-> FALSE,
                                            list |-> BuildStreams(st.d.streamInfos)]]
                      /\ lastOp' = [op |-> "Streams", res |-> "ok",
                                    streams |-> BuildStreams(st.d.streamInfos)]
  /\ UNCHANGED <<ws, m, phase, written, nPackets, nHeaders, got, under>>

\* int(chunkIDStr[0]-'0')*10 + int(chunkIDStr[1]-'0'), in byte arithmetic.
ChunkStreamNum(id) == ((id[1] - 48) % 256) * 10 + ((id[2] - 48) % 256)

\* Whether the kind suffix of a chunk ID fits a stream.
KindFits(info, id) ==
  \/ info.isVideo /\ SubSeq(id, 3, 4) = Suffixdc
  \/ info.isVideo /\ SubSeq(id, 3, 4) = Suffixdb
  \/ info.isAudio /\ SubSeq(id, 3, 4) = Suffixwb

\* The stream positions (0-based) ReadPacket's loop accepts for an entry.
MatchingStreams(infos, id) ==
  {i \in 0..(Len(infos) - 1) : KindFits(infos[i + 1], id) /\ ChunkStreamNum(id) = i}

\* streamIdx and isKeyFrame as ReadPacket's loop leaves them: both keep
\* their zero values when no stream is accepted.
EntryStreamIdx(infos, e) ==
  LET ms == MatchingStreams(infos, e.ChunkID)
  IN  IF ms = {} THEN 0 ELSE CHOOSE i \in ms : \A j \in ms : i <= j

EntryIsKeyFrame(infos, e) ==
  /\ MatchingStreams(infos, e.ChunkID) # {}
  /\ (e.Flags \div AVIIF_KEYFRAME) % 2 = 1

\* k seconds times num over den as a time.Duration in nanoseconds, rounded
\* toward zero.
DurationOf(k, num, den) ==
  LET a == k * num
  IN  a * (1000000000 \div den) + (a * (1000000000 % den)) \div den

\* The counter ReadPacket multiplies by the stream's period: the position
\* of the entry in the whole index.
TimestampCounter(dm, frameNumber, streamIdx) == frameNumber

\* The packet time ReadPacket computes.
PacketTime(info, n) ==
  IF info.isVideo
  THEN IF info.streamHeader.Rate > 0 /\ info.streamHeader.Scale > 0
       THEN DurationOf(n, info.streamHeader.Scale, info.streamHeader.Rate)
       ELSE 0
  ELSE IF info.isAudio /\ info.streamHeader.Rate > 0
  THEN DurationOf(n, 1, info.streamHeader.Rate)
  ELSE 0

\* What ReadPacket returns for an entry, and where it leaves the reader.
ReadEntry(data, dm, e, frameNumber) ==
  LET streamIdx == EntryStreamIdx(dm.streamInfos, e)
      info == dm.streamInfos[streamIdx + 1]
      absoluteOffset == AddPos(dm.moviOffset, e.Offset)
      h == ReadChunkHeader(data, absoluteOffset)
      rd == ReadFull(data, h.pos, h.Size)
  IN  IF ~h.ok THEN [res |-> "error", pos |-> h.pos]
      ELSE IF h.FourCC # e.ChunkID THEN [res |-> "mismatch", pos |-> h.pos]
      ELSE IF ~rd.ok THEN [res |-> "error", pos |-> rd.pos]
      ELSE [res |-> "ok", pos |-> rd.pos, ChunkID |-> e.ChunkID,
            Flags |-> e.Flags, Idx |-> streamIdx,
            IsKeyFrame |-> EntryIsKeyFrame(dm.streamInfos, e),
            Time |-> PacketTime(info, TimestampCounter(dm, frameNumber, streamIdx)),
            Data |-> rd.bytes]

\* The history entry of a ReadPacket call: what it returned, the chunk ID
\* and the flags of the index entry it served, and how many Streams calls
\* came before it.
Returned(out, n) ==
  IF out.res = "ok"
  THEN [res |-> "ok", streams |-> n, ChunkID |-> out.ChunkID,
        Flags |-> out.Flags, Idx |-> out.Idx,
        IsKeyFrame |-> out.IsKeyFrame, Time |-> out.Time, Data |-> out.Data]
  ELSE [res |-> out.res, streams |-> n]

ReadPacket ==
  /\ phase = "demux"
  /\ Len(got) < MaxPackets + 2
  /\ IF d.currentFrame >= Len(d.indexEntries)
     THEN /\ got' = Append(got, [res |-> "EOF", streams |-> nStreams])
          /\ lastOp' = [op |-> "ReadPacket", res |-> "EOF"]
          /\ UNCHANGED <<r, d, phase>>
     ELSE IF d.streamInfos = <<>>
     THEN \* d.streamInfos[streamIdx]: index out of range
          /\ got' = Append(got, [res |-> "panic", streams |-> nStreams])
          /\ lastOp' = [op |-> "ReadPacket", res |-> "panic"]
          /\ d' = [d EXCEPT !.currentFrame = @ + 1]
          /\ phase' = "crashed"
          /\ UNCHANGED r
     ELSE LET out == ReadEntry(r.data, d, d.indexEntries[d.currentFrame + 1],
                               d.currentFrame)
          IN  /\ got' = Append(got, Returned(out, nStreams))
              /\ lastOp' = [op |-> "ReadPacket", res |-> out.res]
              /\ d' = [d EXCEPT !.currentFrame = @ + 1]
              /\ r' = [r EXCEPT !.pos = out.pos]
              /\ UNCHANGED phase
  /\ UNCHANGED <<ws, m, written, nPackets, nHeaders, nStreams, under>>

(***************************************************************************)
(* The specification.                                                      *)
(***************************************************************************)
Prefix(k) == [i \in 1..(2 * k) |-> 66]

Init ==
  /\ \E k \in 0..MaxPrefixWords : ws = [buf |-> Prefix(k), pos |-> 2 * k]
  /\ m = NewMuxer
  /\ phase = "mux"
  /\ lastOp = [op |-> "NewMuxer", res |-> "ok"]
  /\ written = <<>>
  /\ nPackets = 0
  /\ nHeaders = 0
  /\ r = [data |-> <<>>, pos |-> 0]
  /\ d = NewDemuxer
  /\ got = <<>>
  /\ nStreams = 0
  /\ under = NoWriter

Next ==
  \/ \E cds \in DescLists : WriteHeader(cds)
  \/ \E pkt \in Packets : WritePacket(pkt)
  \/ WriteTrailer
  \/ Open
  \/ Streams
  \/ ReadPacket

Spec == Init /\ [][Next]_vars

(***************************************************************************)
(* The Muxer over NewWriterSeeker(w), the buffering adapter the Handler    *)
(* puts around a writer that cannot seek.                                  *)
(***************************************************************************)
InitAdapter ==
  /\ ws = [buf |-> <<>>, pos |-> 0]
  /\ m = NewMuxer
  /\ phase = "mux"
  /\ lastOp = [op |-> "NewMuxer", res |-> "ok"]
  /\ written = <<>>
  /\ nPackets = 0
  /\ nHeaders = 0
  /\ r = [data |-> <<>>, pos |-> 0]
  /\ d = NewDemuxer
  /\ got = <<>>
  /\ nStreams = 0
  /\ under = [attached |-> TRUE, writes |-> <<>>]

NextMux ==
  \/ \E cds \in DescLists : WriteHeader(cds)
  \/ \E pkt \in Packets : WritePacket(pkt)
  \/ WriteTrailer

SpecAdapter == InitAdapter /\ [][NextMux]_vars

(***************************************************************************)
(* The Muxer over a sink whose Write may return an error during            *)
(* WritePacket and accept data again afterwards.                           *)
(***************************************************************************)
NextFaulty ==
  \/ \E cds \in DescLists : WriteHeader(cds)
  \/ \E pkt \in Packets : WritePacket(pkt)
  \/ \E pkt \in Packets, k \in 0..2 : WritePacketFails(pkt, k)
  \/ WriteTrailer

SpecFaulty == Init /\ [][NextFaulty]_vars

(***************************************************************************)
(* The Demuxer on given inputs: files written by a muxer run on an empty   *)
(* sink (as createTestAVIFile does), and damaged copies of them.           *)
(***************************************************************************)
\* WritePacket for each packet of pkts in turn, from sink w and fields mx:
\* the sink and the fields after the first packet are taken (w1, m1), and
\* the remaining packets follow from them.
RECURSIVE MuxPackets(_, _, _)
MuxPackets(w, mx, pkts) ==
  IF pkts = <<>> THEN [ws |-> w, m |-> mx]
  ELSE CHOOSE s \in
         { MuxPackets(w1, m1, Tail(pkts)) :
             w1 \in { IF PacketIsVideo(mx, Head(pkts)) \/ PacketIsAudio(mx, Head(pkts))
                      THEN SinkWriteAll(w, PacketWrites(mx, Head(pkts)))
                      ELSE w },
             m1 \in { IF PacketIsVideo(mx, Head(pkts)) \/ PacketIsAudio(mx, Head(pkts))
                      THEN PacketFields(mx, Head(pkts), w.pos)
                      ELSE mx } } : TRUE

\* The muxer's fields mx after WriteHeader wrote the file headers of mx to
\* an empty sink, and the sink.
MuxHeader(mx) ==
  CHOOSE s \in
    { [ws |-> out.ws,
       m |-> [mx EXCEPT !.headerPos = out.headerPos,
                        !.moviListPos = out.moviListPos]] :
        out \in {writeFileHeaders([buf |-> <<>>, pos |-> 0], mx)} } : TRUE

\* NewMuxer on an empty sink, WriteHeader(cds), WritePacket for each packet:
\* the sink and the muxer's fields before WriteTrailer.
MuxOpen(cds, pkts) ==
  CHOOSE s \in
    { MuxPackets(h.ws, h.m, pkts) :
        h \in { MuxHeader(m1) : m1 \in {HeaderFields(NewMuxer, cds)} } } : TRUE

\* The bytes of the file after WriteTrailer.
MuxFile(cds, pkts) ==
  CHOOSE buf \in
    { TrailerSink(s.ws, s.m).buf : s \in {MuxOpen(cds, pkts)} } : TRUE

\* data with the bytes at offset (0-based) replaced; the bytes lie inside
\* data.
Patch(data, offset, bytes) ==
  SubSeq(data, 1, offset) \o bytes
    \o SubSeq(data, offset + Len(bytes) + 1, Len(data))

\* The test file: one H.264 stream, a key frame of 1 byte and a frame of
\* 2 bytes.
TestDescs == <<H264Even>>
TestPackets ==
  << [Idx |-> 0, IsKeyFrame |-> TRUE, Data |-> <<7>>],
     [Idx |-> 0, IsKeyFrame |-> FALSE, Data |-> <<8, 9>>] >>
TestFile == MuxFile(TestDescs, TestPackets)
\* Offsets in the test file: its first packet chunk and its idx1 chunk.
TestChunkPos == MuxOpen(TestDescs, <<>>).ws.pos
TestIndexPos == MuxOpen(TestDescs, TestPackets).ws.pos

\* A file with no stream at all.
EmptyListFile == MuxFile(<<>>, <<>>)

\* The test file left without WriteTrailer.
NoTrailerFile == MuxOpen(TestDescs, TestPackets).ws.buf

\* The file f whose idx1 header, at offset indexPos, announces 40 bytes of
\* payload where 32 are present.
OverAnnouncedFile(f, indexPos) == Patch(f, indexPos + 4, LE32(40))

\* Copies of f that end before the last byte of the announced idx1 payload:
\* f less its last k bytes, and f with the larger announcement.
Truncations(f, indexPos) ==
  {SubSeq(f, 1, Len(f) - k) : k \in 1..MaxCut}
    \cup {OverAnnouncedFile(f, indexPos)}

\* The truncated inputs: those of the test file, and the test file left
\* without WriteTrailer.
TruncatedInputs ==
  Truncations(TestFile, TestIndexPos) \cup {NoTrailerFile}

\* Inputs whose outer signature is wrong: empty, too short, the invalid
\* data of the tests, a wrong tag or signature in place of f's, and f behind
\* 8 or 12 bytes that are not its head.
BadSignatureInputs(f) ==
  { <<>>, FourCCRIFF,
    <<78, 79, 84, 95, 65, 95, 86, 65, 76, 73, 68, 95, 65, 86, 73, 95, 70, 73, 76, 69>>,
    Patch(f, 0, <<82, 73, 70, 88>>),
    Patch(f, 8, <<65, 86, 73, 88>>),
    <<82, 73, 70, 88>> \o LE32(0) \o f,
    FourCCRIFF \o LE32(0) \o <<65, 86, 73, 88>> \o f }

\* The file f whose first index entry names chunk '00db' while the chunk in
\* movi is '00dc'.
MismatchFile(f, indexPos) ==
  Patch(f, indexPos + 8, Sprintf02d(0) \o Suffixdb)

\* The file f whose first packet chunk and index entry are both '00wb': an
\* audio suffix naming the video stream.
KindDisagreeFile(f, chunkPos, indexPos) ==
  Patch(Patch(f, chunkPos, Sprintf02d(0) \o Suffixwb),
        indexPos + 8, Sprintf02d(0) \o Suffixwb)

\* Files with the packets of the test file whose one stream the demuxer
\* cannot resolve (a JPEG stream, written with compression 0): the file as
\* the muxer wrote it, and the file with its first index entry renamed.
UnresolvedInputs ==
  UNION { UNION { { f, MismatchFile(f, s.ws.pos) } :
                  f \in {TrailerSink(s.ws, s.m).buf} } :
          s \in {MuxOpen(<<JPEGDesc>>, TestPackets)} }

\* A chunk the demuxer has no case for at the top level: 'JUNK', or 'avih'
\* outside hdrl, with n payload bytes and a pad byte after an odd n.
FourCCJUNK == <<74, 85, 78, 75>>
UnknownIDs == {FourCCJUNK, FourCCavih}

UnknownChunk(id, n) ==
  ChunkHeaderBytes(id, n) \o [i \in 1..n |-> 90]
    \o (IF n % 2 = 1 THEN <<0>> ELSE <<>>)

\* Nothing, or one unknown chunk of each ID and payload size.
UnknownChunks ==
  {<<>>} \cup {UnknownChunk(id, n) : id \in UnknownIDs, n \in 0..MaxUnknownSize}

\* The file f with the bytes c put in at offset pos, and the RIFF size
\* raised by their number.
InsertAt(f, pos, c) ==
  Patch(SubSeq(f, 1, pos) \o c \o SubSeq(f, pos + 1, Len(f)),
        4, LE32(U32(SubSeq(f, 5, 8)) + Len(c)))

\* The file f with an unknown chunk between hdrl and movi (at moviPos),
\* between movi and idx1 (at indexPos), or both.
UnknownChunkFiles(f, moviPos, indexPos) ==
  UNION { { InsertAt(g, moviPos, a) : a \in UnknownChunks } :
          g \in { InsertAt(f, indexPos, b) : b \in UnknownChunks } } \ {f}

\* Offset of the movi LIST header in the test file.
TestMoviListPos == MuxOpen(TestDescs, <<>>).m.moviListPos

\* The test file with unknown chunks.
UnknownChunkInputs ==
  UNION { UnknownChunkFiles(f, mp, ip) :
          f \in {TestFile}, mp \in {TestMoviListPos}, ip \in {TestIndexPos} }

\* The inputs of the demuxer: the test file, its damaged copies, the files
\* without streams and without trailer, the files with an unresolved
\* stream, and the test file with unknown chunks.
DemuxInputs ==
  {EmptyListFile, NoTrailerFile} \cup UnresolvedInputs \cup UnknownChunkInputs \cup
  UNION { {f, MismatchFile(f, ip), KindDisagreeFile(f, cp, ip)}
            \cup Truncations(f, ip) \cup BadSignatureInputs(f) :
          f \in {TestFile}, cp \in {TestChunkPos}, ip \in {TestIndexPos} }

InitDemux ==
  /\ ws = [buf |-> <<>>, pos |-> 0]
  /\ m = NewMuxer
  /\ phase = "demux"
  /\ lastOp = [op |-> "NewDemuxer", res |-> "ok"]
  /\ written = <<>>
  /\ nPackets = 0
  /\ nHeaders = 0
  /\ \E data \in DemuxInputs : r = [data |-> data, pos |-> 0]
  /\ d = NewDemuxer
  /\ got = <<>>
  /\ nStreams = 0
  /\ under = NoWriter

NextDemux == Streams \/ ReadPacket

SpecDemux == InitDemux /\ [][NextDemux]_vars

(***************************************************************************)
(* The pure functions, applied to inputs drawn by the initial state: the   *)
(* chunk ID encoding of WritePacket, its decoding by ReadPacket, and the   *)
(* probe. lastOp holds the input and then the result.                      *)
(***************************************************************************)
\* aviio.FourCC(fmt.Sprintf("%02d" + kind, s)): the chunk ID, or a panic
\* when the string is not 4 characters long.
EncodeChunkID(s, k) ==
  LET str == Sprintf02d(s) \o k
  IN  IF Len(str) = 4 THEN [res |-> "ok", id |-> str]
      ELSE [res |-> "panic", id |-> <<>>]

\* A stream list of n streams of the kind the suffix k belongs to.
StreamsOfKind(n, k) ==
  [i \in 1..n |-> [NewStreamInfo(i - 1) EXCEPT !.isVideo = k # Suffixwb,
                                                !.isAudio = k = Suffixwb]]

\* What ReadPacket takes from a chunk ID: the stream number of the two
\* digits, the kind suffix, and the streams its loop accepts.
DecodeChunkID(id, infos) ==
  [streamNum |-> ChunkStreamNum(id), kind |-> SubSeq(id, 3, 4),
   accepted |-> MatchingStreams(infos, id)]

\* Variant of detectAVIFormat that looks at the RIFF tag alone.
detectAVIFormatRiffOnly(b) ==
  IF Len(b) < 12 THEN FALSE ELSE SubSeq(b, 1, 4) = FourCCRIFF

\* detectAVIFormat: the probe.
detectAVIFormat(b) ==
  IF Len(b) < 12 THEN FALSE
  ELSE SubSeq(b, 1, 4) = FourCCRIFF /\ SubSeq(b, 9, 12) = FourCCAVI

\* The prefixes given to the probe: the first n bytes, n up to MaxProbeLen,
\* of a file head with a right or wrong tag and a right or wrong signature.
ProbeTags == {FourCCRIFF, <<82, 73, 70, 88>>, <<78, 79, 84, 95>>}
ProbeSignatures == {FourCCAVI, <<65, 86, 73, 88>>, <<87, 65, 86, 69>>}
ProbeInputs ==
  {SubSeq(t \o LE32(0) \o g \o FourCCLIST \o FourCChdrl, 1, n) :
     t \in ProbeTags, g \in ProbeSignatures, n \in 0..MaxProbeLen}

ChunkKinds == {Suffixdc, Suffixdb, Suffixwb}

InitPure ==
  /\ ws = [buf |-> <<>>, pos |-> 0]
  /\ m = NewMuxer
  /\ phase = "pure"
  /\ \/ \E s \in 0..MaxStreamNum, k \in ChunkKinds :
          lastOp = [op |-> "chunk", s |-> s, k |-> k]
     \/ \E b \in ProbeInputs : lastOp = [op |-> "prefix", b |-> b]
  /\ written = <<>>
  /\ nPackets = 0
  /\ nHeaders = 0
  /\ r = [data |-> <<>>, pos |-> 0]
  /\ d = NewDemuxer
  /\ got = <<>>
  /\ nStreams = 0
  /\ under = NoWriter

EncodeChunk ==
  /\ phase = "pure"
  /\ lastOp.op = "chunk"
  /\ LET e == EncodeChunkID(lastOp.s, lastOp.k)
     IN  lastOp' = [op |-> "encoded", s |-> lastOp.s, k |-> lastOp.k,
                    res |-> e.res, id |-> e.id]
  /\ UNCHANGED <<ws, m, phase, written, nPackets, nHeaders, r, d, got, nStreams,
               under>>

DecodeChunk ==
  /\ phase = "pure"
  /\ lastOp.op = "encoded" /\ lastOp.res = "ok"
  /\ LET dec == DecodeChunkID(lastOp.id, StreamsOfKind(lastOp.s + 1, lastOp.k))
     IN  lastOp' = [op |-> "decoded", s |-> lastOp.s, k |-> lastOp.k,
                    id |-> lastOp.id, streamNum |-> dec.streamNum,
                    kind |-> dec.kind, accepted |-> dec.accepted]
  /\ UNCHANGED <<ws, m, phase, written, nPackets, nHeaders, r, d, got, nStreams,
               under>>

Probe ==
  /\ phase = "pure"
  /\ lastOp.op = "prefix"
  /\ lastOp' = [op |-> "Probe", b |-> lastOp.b, res |-> detectAVIFormat(lastOp.b)]
  /\ UNCHANGED <<ws, m, phase, written, nPackets, nHeaders, r, d, got, nStreams,
               under>>

NextPure == EncodeChunk \/ DecodeChunk \/ Probe

SpecPure == InitPure /\ [][NextPure]_vars

(***************************************************************************)
(* The WriterSeeker on its own: Seek and Write calls in any order, as a    *)
(* caller other than the Muxer may make them. lastOp holds the call.       *)
(***************************************************************************)
\* The byte strings given to Write.
SeekerPayloads == { <<1>>, <<2, 3>>, <<4, 5, 6>> }

InitSeeker ==
  /\ ws = [buf |-> <<>>, pos |-> 0]
  /\ m = NewMuxer
  /\ phase = "seeker"
  /\ lastOp = [op |-> "NewWriterSeeker", res |-> "ok"]
  /\ written = <<>>
  /\ nPackets = 0
  /\ nHeaders = 0
  /\ r = [data |-> <<>>, pos |-> 0]
  /\ d = NewDemuxer
  /\ got = <<>>
  /\ nStreams = 0
  /\ under = [attached |-> TRUE, writes |-> <<>>]

\* ws.Seek(offset, io.SeekStart) to a position inside the buffer or at its
\* end.
SeekerSeek(offset) ==
  /\ phase = "seeker"
  /\ offset <= Len(ws.buf)
  /\ ws' = SinkSeek(ws, offset)
  /\ lastOp' = [op |-> "Seek", res |-> "ok", offset |-> offset]
  /\ UNCHANGED <<m, phase, written, nPackets, nHeaders, r, d, got, nStreams, under>>

\* ws.Write(p).
SeekerWrite(p) ==
  /\ phase = "seeker"
  /\ Len(ws.buf) + Len(p) <= MaxSeekerLen
  /\ ws' = SinkWrite(ws, p)
  /\ lastOp' = [op |-> "Write", res |-> "ok", p |-> p]
  /\ UNCHANGED <<m, phase, written, nPackets, nHeaders, r, d, got, nStreams, under>>

NextSeeker ==
  \/ \E offset \in 0..MaxSeekerLen : SeekerSeek(offset)
  \/ \E p \in SeekerPayloads : SeekerWrite(p)

SpecSeeker == InitSeeker /\ [][NextSeeker]_vars

(***************************************************************************)
(* Properties.                                                             *)
(***************************************************************************)
\* The uint32 at byte offset pos of the sink.
SinkU32(pos) == U32(SubSeq(ws.buf, pos + 1, pos + 4))

\* The byte right after the 'movi' FourCC, as the muxer's offsets take it.
MoviDataPos == m.moviListPos + 12

\* The stream positions WriteHeader recognized.
DeclaredStreams ==
  (IF m.hasVideo THEN {m.videoStreamIdx} ELSE {})
    \cup (IF m.hasAudio THEN {m.audioStreamIdx} ELSE {})

\* Every WritePacket call came after the one WriteHeader call and named a
\* recognized stream.
PacketsAfterHeader ==
  /\ nHeaders = 1
  /\ nPackets = Len(written)
  /\ \A i \in 1..Len(written) :
       written[i].headers = 1 /\ written[i].Idx \in DeclaredStreams

\* The sink was empty when the muxer was created.
FreshSink == m.headerPos = 0 /\ nHeaders = 1

\* A Demuxer on which Streams was called before the first ReadPacket.
StreamsThenRead ==
  /\ phase = "demux"
  /\ nStreams >= 1
  /\ \A i \in 1..Len(got) : got[i].streams >= 1

\* C1: every packet sequence written to a single declared video stream at
\* index 0 between WriteHeader and WriteTrailer is returned by Streams and
\* then repeated ReadPacket as the same packets, in order, with stream index
\* 0, the same key-frame flag and the same payload, then end-of-stream.
C1_RoundTrip ==
  ( /\ FreshSink
    /\ PacketsAfterHeader
    /\ Len(m.codecData) = 1
    /\ m.codecData[1].type \in {"H264", "H265"}
    /\ StreamsThenRead )
  => /\ ~d.streams.nil
     /\ \A i \in 1..Len(got) :
          IF i <= Len(written)
          THEN /\ got[i].res = "ok"
               /\ got[i].Idx = 0
               /\ got[i].IsKeyFrame = written[i].IsKeyFrame
               /\ got[i].Data = written[i].Data
          ELSE got[i].res = "EOF"

\* The number of packets ReadPacket returned for stream idx before call i.
EarlierOfStream(i, idx) ==
  Cardinality({j \in 1..(i - 1) : got[j].res = "ok" /\ got[j].Idx = idx})

\* C2: the time of a returned packet is computed from the packet's ordinal
\* position within its own stream: the k-th video packet gets k*scale/rate
\* seconds and the k-th audio packet k/rate seconds.
C2_PerStreamTime ==
  \A i \in 1..Len(got) :
    got[i].res = "ok" =>
      got[i].Time = PacketTime(d.streamInfos[got[i].Idx + 1],
                               EarlierOfStream(i, got[i].Idx))

\* The chunk ID in the sink at moviDataPos + offset, <<>> if none is there.
ChunkIDAt(offset) ==
  IF offset >= 0 /\ MoviDataPos + offset + 4 <= Len(ws.buf)
  THEN SubSeq(ws.buf, MoviDataPos + offset + 1, MoviDataPos + offset + 4)
  ELSE <<>>

\* C3: offset law: after any sequence of WriteHeader and WritePacket calls,
\* each recorded index entry's offset, counted from the byte after the
\* 'movi' FourCC, leads to a chunk header with the entry's chunk ID, and the
\* first packet's entry has offset 0.
C3_OffsetLaw ==
  (phase = "mux" /\ nHeaders >= 1) =>
    /\ \A i \in 1..Len(m.indexEntries) :
         ChunkIDAt(m.indexEntries[i].Offset) = m.indexEntries[i].ChunkID
    /\ Len(m.indexEntries) >= 1 => m.indexEntries[1].Offset = 0

C5_Alignment ==
  (lastOp.op = "WritePacket" /\ lastOp.res = "ok") => Len(ws.buf) % 2 = 0

\* The offset of avih.totalFrames in the emitted file: RIFF header and
\* 'AVI ' (12), LIST header and 'hdrl' (12), avih header (8), four fields.
AvihTotalFramesPos == m.headerPos + 12 + 12 + 8 + 16

\* C6: frame-count law: after WriteTrailer, avih.totalFrames is the number
\* of successful WritePacket calls whose stream index was the video
\* stream's index, for any starting position of the sink.
C6_FrameCount ==
  (phase = "closed" /\ nHeaders >= 1) =>
    SinkU32(AvihTotalFramesPos)
      = Cardinality({i \in 1..Len(written) : written[i].video})

\* C6 witness: a closed file with a video and a non-video packet, written
\* on a sink that was not empty.
C6_Witness ==
  /\ phase = "closed" /\ nHeaders >= 1 /\ m.headerPos > 0
  /\ \E i, j \in 1..Len(written) : written[i].video /\ ~written[j].video

\* C7: RIFF-size law: after WriteTrailer the four bytes at headerPos + 4
\* hold the final write position minus 8.
C7_RiffSize ==
  (phase = "closed" /\ nHeaders >= 1) => SinkU32(m.headerPos + 4) = ws.pos - 8

\* C8: WritePacket returns an error, writes nothing and records no index
\* entry for a packet whose stream index is not the position of a
\* recognized stream.
C8_RejectsUndeclared ==
  [][ ( /\ nPackets' = nPackets + 1
        /\ lastOp'.pkt.Idx \notin DeclaredStreams )
      => /\ lastOp'.res = "error"
         /\ ws' = ws
         /\ m'.indexEntries = m.indexEntries ]_vars

\* C9: for a video and an audio descriptor in either order, each packet
\* comes back from the demuxer with the stream index it was written with.
C9_StreamNumbers ==
  ( /\ FreshSink
    /\ PacketsAfterHeader
    /\ Len(m.codecData) = 2
    /\ m.hasVideo /\ m.hasAudio
    /\ StreamsThenRead )
  => \A i \in 1..Len(got) :
       (i <= Len(written) /\ got[i].res = "ok") => got[i].Idx = written[i].Idx

\* C10: a supported descriptor with non-empty extradata of any length comes
\* back from WriteHeader, WriteTrailer, Streams as one descriptor of the
\* same kind with the same extradata, and the header walk ends on the
\* 'movi' LIST header.
C10_DescriptorRoundTrip ==
  ( /\ FreshSink
    /\ phase = "demux"
    /\ Len(m.codecData) = 1
    /\ m.codecData[1].extra # <<>>
    /\ nStreams >= 1 )
  => /\ ~d.streams.nil
     /\ Len(d.streams.list) = 1
     /\ d.streams.list[1].type = m.codecData[1].type
     /\ d.streams.list[1].extra = m.codecData[1].extra
     /\ d.moviOffset = MoviDataPos

\* C11: round trip of chunk IDs: for every stream number s in 0..99 and
\* every kind k in {dc, db, wb}, the chunk ID encoded from (s, k) is 4 bytes
\* long and decodes to the stream number s and the kind k; the reader's
\* search over s + 1 streams of that kind accepts stream s and no other.
C11_ChunkIDRoundTrip ==
  /\ (lastOp.op = "encoded" /\ lastOp.s <= 99) => lastOp.res = "ok"
  /\ (lastOp.op = "decoded" /\ lastOp.s <= 99) =>
        /\ lastOp.streamNum = lastOp.s
        /\ lastOp.kind = lastOp.k
        /\ lastOp.accepted = {lastOp.s}

\* C11 witness: a one-digit stream number with kind db has been encoded
\* and decoded.
C11_Witness ==
  lastOp.op = "decoded" /\ lastOp.s = 7 /\ lastOp.k = Suffixdb

\* C19: the probe returns true exactly when the prefix has at least 12
\* bytes, starts with 'RIFF' and has 'AVI ' at bytes 8..12.
C19_Probe ==
  lastOp.op = "Probe" =>
    (lastOp.res <=>
       /\ Len(lastOp.b) >= 12
       /\ lastOp.b[1] = 82 /\ lastOp.b[2] = 73
       /\ lastOp.b[3] = 70 /\ lastOp.b[4] = 70
       /\ lastOp.b[9] = 65 /\ lastOp.b[10] = 86
       /\ lastOp.b[11] = 73 /\ lastOp.b[12] = 32)

\* C19 witness: the probe has refused a 12-byte prefix that starts with
\* 'RIFF' and carries another signature.
C19_Witness ==
  /\ lastOp.op = "Probe" /\ ~lastOp.res
  /\ Len(lastOp.b) = 12 /\ SubSeq(lastOp.b, 1, 4) = FourCCRIFF

\* The codec types the muxer has a compression FourCC or a format tag for.
SupportedTypes == {"H264", "H265", "AAC", "PCM_MULAW", "PCM_ALAW"}

\* C12: WriteHeader on a descriptor list with neither a video nor an audio
\* stream returns an error and writes nothing to the sink.
C12_RejectsNoStreams ==
  [][ (nHeaders' = nHeaders + 1 /\ ~m'.hasVideo /\ ~m'.hasAudio)
        => (lastOp'.res = "error" /\ ws' = ws) ]_vars

\* C13: WriteHeader returns an error when a descriptor's codec has no
\* compression FourCC or format tag; it never returns success after
\* writing a stream header for such a codec.
C13_RejectsUnsupported ==
  [][ (nHeaders' = nHeaders + 1
        /\ \E i \in 1..Len(m'.codecData) :
             m'.codecData[i].type \notin SupportedTypes)
        => lastOp'.res = "error" ]_vars

\* The outer signature of an input is wrong: shorter than 12 bytes, or not
\* 'RIFF' at 0..4, or not 'AVI ' at 8..12.
BadSignature(data) ==
  \/ Len(data) < 12
  \/ SubSeq(data, 1, 4) # FourCCRIFF
  \/ SubSeq(data, 9, 12) # FourCCAVI

\* C14: on an input whose outer signature is wrong every Streams call
\* returns an error, and no ReadPacket call made after a Streams call
\* delivers a packet.
C14_BadSignature ==
  (phase = "demux" /\ BadSignature(r.data)) =>
    /\ lastOp.op = "Streams" => lastOp.res = "error"
    /\ \A i \in 1..Len(got) : got[i].streams >= 1 => got[i].res # "ok"

\* C15: on an input that ends before the last byte of the idx1 payload its
\* idx1 header announces, or before idx1, Streams returns an error.
C15_TruncatedIndex ==
  (phase = "demux" /\ r.data \in TruncatedInputs /\ lastOp.op = "Streams") =>
    lastOp.res = "error"

\* C16: once ReadPacket has returned an error other than end-of-stream, no
\* later ReadPacket call returns a packet.
C16_ErrorsTerminal ==
  \A i, j \in 1..Len(got) :
    (i < j /\ got[i].res \in {"mismatch", "error"}) => got[j].res # "ok"

\* C17: a Streams call made after one that succeeded returns the same
\* list and leaves the source, its position, the index and the cursor as
\* they were.
C17_StreamsIdempotent ==
  [][ (nStreams' = nStreams + 1 /\ ~d.streams.nil)
        => /\ lastOp'.res = "ok"
           /\ lastOp'.streams = d.streams.list
           /\ r' = r
           /\ d' = d ]_vars

\* C17 witness: a second Streams call has returned after a ReadPacket call
\* that delivered a packet between the two.
C17_Witness ==
  /\ lastOp.op = "Streams" /\ lastOp.res = "ok" /\ nStreams = 2
  /\ \E i \in 1..Len(got) : got[i].res = "ok" /\ got[i].streams = 1

\* The kind suffix of a chunk ID disagrees with the kind of the stream its
\* two digits name.
KindDisagrees(infos, id) ==
  LET n == ChunkStreamNum(id)
  IN  n < Len(infos) /\ ~KindFits(infos[n + 1], id)

\* C20: ReadPacket never delivers the payload of an index entry whose kind
\* suffix disagrees with the kind of the stream its digits name.
C20_SkipsKindMismatch ==
  \A i \in 1..Len(got) :
    got[i].res = "ok" => ~KindDisagrees(d.streamInfos, got[i].ChunkID)

\* The packets of the accepted WritePacket calls, in order.
WrittenPackets ==
  [i \in 1..Len(written) |->
     [Idx |-> written[i].Idx, IsKeyFrame |-> written[i].IsKeyFrame,
      Data |-> written[i].Data]]

\* What a seekable file that starts empty holds after WriteHeader(cds), the
\* packets and WriteTrailer: the bytes written in sequence, with the RIFF
\* size, the movi size and the frame count overwritten in place.
NativeFile(cds, pkts) ==
  LET s == MuxOpen(cds, pkts)
      w1 == writeIndex(s.ws, s.m)
      b1 == Patch(w1.buf, 4, LE32(Len(w1.buf) - 8))
      b2 == Patch(b1, s.m.moviListPos + 4, LE32(s.m.dataSize + 4))
  IN  Patch(b2, s.m.headerPos + 48, LE32(s.m.frameCount))

\* C18: over the WriterSeeker adapter the writer below receives nothing
\* before WriteTrailer, and after a WriteHeader / WritePacket* /
\* WriteTrailer sequence it has received one Write holding exactly the
\* bytes a seekable file holds after the same calls.
C18_AdapterEquivalence ==
  under.attached =>
    /\ phase = "mux" => under.writes = <<>>
    /\ (phase = "closed" /\ nHeaders = 1
          /\ \A i \in 1..Len(written) : written[i].headers = 1)
         => under.writes = << NativeFile(m.codecData, WrittenPackets) >>

\* C18 witness: a file with two packets has been flushed to the writer
\* below the adapter.
C18_Witness ==
  /\ under.attached /\ phase = "closed" /\ nHeaders = 1
  /\ Len(written) = 2 /\ \A i \in 1..Len(written) : written[i].headers = 1
  /\ Len(under.writes) = 1

\* C21: in a file with a video and an audio stream of which the demuxer
\* dropped one, every packet written to the resolved stream comes back as a
\* packet of stream 0 with its key-frame flag, and no ReadPacket call
\* delivers the entry of a packet written to the dropped stream.
C21_DroppedStream ==
  ( /\ FreshSink
    /\ PacketsAfterHeader
    /\ m.hasVideo /\ m.hasAudio /\ m.videoStreamIdx = 0
    /\ StreamsThenRead
    /\ Len(d.streamInfos) = 1 )
  => \A i \in 1..Len(got) :
       i <= Len(written) =>
         IF written[i].video = d.streamInfos[1].isVideo
         THEN /\ got[i].res = "ok"
              /\ got[i].Idx = 0
              /\ got[i].IsKeyFrame = written[i].IsKeyFrame
         ELSE got[i].res # "ok"

\* C22: every packet ReadPacket returns carries a stream index below the
\* number of resolved streams, and no ReadPacket call reads the stream
\* table out of range.
C22_StreamIndexInRange ==
  \A i \in 1..Len(got) :
    /\ got[i].res # "panic"
    /\ got[i].res = "ok" => got[i].Idx \in 0..(Len(d.streamInfos) - 1)

\* C23: after every WritePacket call the number of recorded index entries
\* is the number of calls that returned success, and a call that returns an
\* error leaves the index list, dataSize and frameCount as they were.
C23_IndexCountsSuccesses ==
  [][ nPackets' = nPackets + 1
        => /\ Len(m'.indexEntries) = Len(written')
           /\ lastOp'.res = "error"
                => /\ m'.indexEntries = m.indexEntries
                   /\ m'.dataSize = m.dataSize
                   /\ m'.frameCount = m.frameCount ]_vars

\* The positions (1-based) of the bytes of the three placeholder fields: the
\* RIFF size, the movi LIST size and avih.totalFrames.
PlaceholderBytes ==
  ((m.headerPos + 5)..(m.headerPos + 8))
    \cup ((m.moviListPos + 5)..(m.moviListPos + 8))
    \cup ((AvihTotalFramesPos + 1)..(AvihTotalFramesPos + 4))

\* C24: between WriteHeader and WriteTrailer the RIFF size, the movi LIST
\* size and avih.totalFrames are 0 and WritePacket leaves every byte already
\* in the sink as it was; WriteTrailer changes no byte written before it
\* outside those three fields and leaves the write position at the end of
\* the file.
C24_PatchesOnly ==
  [][ (phase = "mux" /\ nHeaders >= 1)
        => /\ SinkU32(m.headerPos + 4) = 0
           /\ SinkU32(m.moviListPos + 4) = 0
           /\ SinkU32(AvihTotalFramesPos) = 0
           /\ nPackets' = nPackets + 1
                => /\ Len(ws'.buf) >= Len(ws.buf)
                   /\ SubSeq(ws'.buf, 1, Len(ws.buf)) = ws.buf
           /\ phase' = "closed"
                => /\ Len(ws'.buf) >= Len(ws.buf)
                   /\ \A i \in 1..Len(ws.buf) :
                        ws'.buf[i] # ws.buf[i] => i \in PlaceholderBytes
                   /\ ws'.pos = Len(ws'.buf) ]_vars

\* C25: once WriteHeader has been called, after every successful
\* WritePacket dataSize has grown by 8 + payload length + pad and the
\* sink's write position is moviDataPos + dataSize; WriteTrailer sets the
\* movi LIST size field to dataSize + 4, the number of bytes from the 'movi'
\* FourCC to the start of the idx1 chunk header.
C25_DataSize ==
  [][ nHeaders >= 1
        => /\ (nPackets' = nPackets + 1 /\ lastOp'.res = "ok")
                => /\ m'.dataSize = m.dataSize + 8 + Len(lastOp'.pkt.Data)
                                       + (Len(lastOp'.pkt.Data) % 2)
                   /\ ws'.pos = m'.moviListPos + 12 + m'.dataSize
           /\ (phase = "mux" /\ phase' = "closed")
                => /\ U32(SubSeq(ws'.buf, m.moviListPos + 5, m.moviListPos + 8))
                        = m.dataSize + 4
                   /\ m.dataSize + 4 = ws.pos - (m.moviListPos + 8) ]_vars

\* The 16 bytes idx1 holds for the i-th successful WritePacket call.
WrittenEntryBytes(i) ==
  Sprintf02d(written[i].Idx)
    \o (IF written[i].video THEN Suffixdc ELSE Suffixwb)
    \o LE32(IF written[i].IsKeyFrame THEN 16 ELSE 0)
    \o LE32(written[i].pos - (m.moviListPos + 12))
    \o LE32(Len(written[i].Data))

\* C26: WriteTrailer writes the idx1 chunk where the last packet chunk
\* ended, with size field 16*N for the N WritePacket calls that returned
\* success, and its entries are those of these calls in call order; the
\* file ends with the last entry.
C26_IndexAfterMovi ==
  [][ (phase = "mux" /\ phase' = "closed" /\ nHeaders >= 1)
        => LET N == Len(written)
           IN  /\ N >= 1 => ws.pos = written[N].pos + 8 + Len(written[N].Data)
                                       + (Len(written[N].Data) % 2)
               /\ Len(ws'.buf) = ws.pos + 8 + 16 * N
               /\ SubSeq(ws'.buf, ws.pos + 1, ws.pos + 8)
                    = FourCCidx1 \o LE32(16 * N)
               /\ \A i \in 1..N :
                    SubSeq(ws'.buf, ws.pos + 8 + 16 * (i - 1) + 1,
                           ws.pos + 8 + 16 * i) = WrittenEntryBytes(i) ]_vars

\* The 4 bytes of the source at moviOffset + offset when a whole chunk
\* header lies there, <<>> otherwise.
SourceChunkID(offset) ==
  IF d.moviOffset + offset + 8 <= Len(r.data)
  THEN SubSeq(r.data, d.moviOffset + offset + 1, d.moviOffset + offset + 4)
  ELSE <<>>

\* C27: a ReadPacket call returns a packet only if the chunk header at
\* moviDataPos + entry.offset carries the chunk ID of the index entry it
\* serves; when a chunk header with another ID lies there the call returns
\* the mismatch error and no payload.
C27_ChunkIDVerified ==
  [][ (Len(got') = Len(got) + 1 /\ d.currentFrame < Len(d.indexEntries))
        => LET e == d.indexEntries[d.currentFrame + 1]
               id == SourceChunkID(e.Offset)
           IN  /\ lastOp'.res = "ok" => id = e.ChunkID
               /\ (id # <<>> /\ id # e.ChunkID)
                    => /\ lastOp'.res = "mismatch"
                       /\ "Data" \notin DOMAIN got'[Len(got')] ]_vars

\* C28: every packet ReadPacket returns has isKeyFrame equal to
\* (flags & 0x10) != 0 of the index entry it served, whether or not the
\* entry's chunk ID names a resolved stream of a fitting kind.
C28_KeyFrameFromFlags ==
  \A i \in 1..Len(got) :
    got[i].res = "ok" =>
      (got[i].IsKeyFrame <=> (got[i].Flags \div 16) % 2 = 1)

\* The offset of the WaveFormatEx of a file with an audio stream alone:
\* RIFF header and 'AVI ' (12), LIST header and 'hdrl' (12), avih (64),
\* LIST header and 'strl' (12), strh (64), strf header (8).
WaveFormatPos == m.headerPos + 12 + 12 + 64 + 12 + 64 + 8

SinkU16(pos) == U16(SubSeq(ws.buf, pos + 1, pos + 2))

\* C29: for a G.711 audio descriptor WriteHeader writes a WaveFormatEx with
\* channels 1, samplesPerSec 8000, bitsPerSample 8, blockAlign 1 and
\* avgBytesPerSec 8000.
C29_G711Format ==
  ( /\ phase = "mux" /\ nHeaders >= 1
    /\ Len(m.codecData) = 1
    /\ m.codecData[1].type \in {"PCM_MULAW", "PCM_ALAW"} )
  => /\ SinkU16(WaveFormatPos + 2) = 1
     /\ SinkU32(WaveFormatPos + 4) = 8000
     /\ SinkU32(WaveFormatPos + 8) = 8000
     /\ SinkU16(WaveFormatPos + 12) = 1
     /\ SinkU16(WaveFormatPos + 14) = 8

\* C30: the chunk a successful WritePacket appends has kind suffix 'dc'
\* when the packet's index is the video stream's, key frame or not, and
\* 'wb' otherwise; after the chunk ID it holds the payload length, the
\* payload and the pad alone, and the key-frame status is in the flags of
\* the index entry: 0x10 for a key frame, 0 otherwise.
C30_ChunkKind ==
  [][ (nPackets' = nPackets + 1 /\ lastOp'.res = "ok")
        => LET pkt == lastOp'.pkt
               e == m'.indexEntries[Len(m'.indexEntries)]
           IN  /\ SubSeq(ws'.buf, ws.pos + 3, ws.pos + 4)
                    = (IF pkt.Idx = m.videoStreamIdx THEN Suffixdc ELSE Suffixwb)
               /\ SubSeq(ws'.buf, ws.pos + 5, Len(ws'.buf))
                    = LE32(Len(pkt.Data)) \o pkt.Data
                        \o (IF Len(pkt.Data) % 2 = 1 THEN <<0>> ELSE <<>>)
               /\ SubSeq(e.ChunkID, 3, 4)
                    = (IF pkt.Idx = m.videoStreamIdx THEN Suffixdc ELSE Suffixwb)
               /\ e.Flags = (IF pkt.IsKeyFrame THEN 16 ELSE 0) ]_vars

\* C30 witness: a key frame of the video stream and a packet of the audio
\* stream have been written.
C30_Witness ==
  /\ m.hasVideo /\ m.hasAudio /\ lastOp.op = "WritePacket" /\ lastOp.res = "ok"
  /\ \E i, j \in 1..Len(written) :
       /\ written[i].video /\ written[i].IsKeyFrame
       /\ ~written[j].video /\ written[j].Idx = m.audioStreamIdx
  /\ nHeaders = 1

\* Whether the strl LISTs from byte offset pos of the sink up to the movi
\* LIST header each carry the size of their contents: the list type (4), the
\* strh chunk (8 + 56) and the strf chunk (8 + its size), so that stepping
\* by 8 + size from one LIST header reaches the next, and at last the movi
\* LIST header.
RECURSIVE StrlSizesExact(_)
StrlSizesExact(pos) ==
  IF pos >= m.moviListPos THEN pos = m.moviListPos
  ELSE /\ SubSeq(ws.buf, pos + 1, pos + 4) = FourCCLIST
       /\ SubSeq(ws.buf, pos + 9, pos + 12) = FourCCstrl
       /\ SubSeq(ws.buf, pos + 13, pos + 16) = FourCCstrh
       /\ SinkU32(pos + 16) = 56
       /\ SubSeq(ws.buf, pos + 77, pos + 80) = FourCCstrf
       /\ SinkU32(pos + 4) = 4 + 64 + 8 + SinkU32(pos + 80)
       /\ StrlSizesExact(pos + 8 + SinkU32(pos + 4))

\* C31: the size field of the hdrl LIST is the number of bytes from the end
\* of that field to the movi LIST header, the size field of each strl LIST
\* is the length of its list type and nested chunks, both stay as written
\* through WriteTrailer, and the demuxer, advancing through hdrl by these
\* sizes, records the byte after the 'movi' FourCC as the start of the movi
\* data.
C31_HeaderSizes ==
  (nHeaders >= 1 /\ phase # "crashed")
    => /\ SinkU32(m.headerPos + 16) = m.moviListPos - (m.headerPos + 20)
       /\ StrlSizesExact(m.headerPos + 12 + 12 + 64)
       /\ (FreshSink /\ phase = "demux" /\ nStreams >= 1)
            => d.moviOffset = m.moviListPos + 12

\* What the i-th ReadPacket call returns on the test file when Streams was
\* called before the first: the i-th test packet as a packet of stream 0 at
\* (i - 1) / 25 seconds, and end-of-stream after the last.
TestReturned(i, n) ==
  IF i > Len(TestPackets) THEN [res |-> "EOF", streams |-> n]
  ELSE [res |-> "ok", streams |-> n, ChunkID |-> Sprintf02d(0) \o Suffixdc,
        Flags |-> IF TestPackets[i].IsKeyFrame THEN AVIIF_KEYFRAME ELSE 0,
        Idx |-> 0, IsKeyFrame |-> TestPackets[i].IsKeyFrame,
        Time |-> DurationOf(i - 1, 1, 25), Data |-> TestPackets[i].Data]

\* C32: on the test file with a chunk of unknown ID and any payload size
\* (and a pad byte after an odd size) put in between hdrl and movi, between
\* movi and idx1, or both, Streams returns the list it returns on the test
\* file itself, every ReadPacket call after it returns what the same call
\* returns on the test file, and the movi offset recorded is the position
\* of the byte after the 'movi' FourCC in the file read.
C32_UnknownChunksTolerated ==
  (phase = "demux" /\ r.data \in UnknownChunkInputs \cup {TestFile}
     /\ nStreams >= 1)
    => /\ ~d.streams.nil
       /\ d.streams.list = TestDescs
       /\ lastOp.op = "Streams"
            => lastOp.res = "ok" /\ lastOp.streams = TestDescs
       /\ SubSeq(r.data, d.moviOffset - 3, d.moviOffset) = FourCCmovi
       /\ (\A i \in 1..Len(got) : got[i].streams >= 1)
            => \A i \in 1..Len(got) : got[i] = TestReturned(i, got[i].streams)

\* C32 witness: both packets and end-of-stream have come back from a file
\* with an unknown chunk of odd payload size before movi and one before
\* idx1.
C32_Witness ==
  /\ phase = "demux" /\ r.data \in UnknownChunkInputs
  /\ SubSeq(r.data, TestMoviListPos + 1, TestMoviListPos + 4) = FourCCJUNK
  /\ r.data[TestMoviListPos + 5] = 3
  /\ Len(r.data) > Len(TestFile) + 12
  /\ Len(got) = 3 /\ got[1].res = "ok" /\ got[2].res = "ok" /\ got[3].res = "EOF"
  /\ got[1].streams >= 1

\* C33: a ReadPacket call that finds the cursor below the number of index
\* entries advances it by exactly one, the cursor never exceeds that
\* number, a ReadPacket call made after one that returned end-of-stream
\* returns end-of-stream, and so the calls that did not return
\* end-of-stream are never more than the index has entries.
C33_CursorAndEOF ==
  [][ /\ d'.currentFrame <= Len(d'.indexEntries)
      /\ Len(got') = Len(got) + 1
           => /\ d.currentFrame < Len(d.indexEntries)
                   => d'.currentFrame = d.currentFrame + 1
              /\ (\E i \in 1..Len(got) : got[i].res = "EOF")
                   => lastOp'.res = "EOF"
              /\ Cardinality({i \in 1..Len(got') : got'[i].res # "EOF"})
                   <= Len(d'.indexEntries) ]_vars

\* The number of LISTs from byte offset pos of the sink up to the movi LIST
\* header, stepping from one LIST header to the next by 8 + size.
RECURSIVE StrlCount(_)
StrlCount(pos) ==
  IF pos >= m.moviListPos THEN 0
  ELSE 1 + StrlCount(pos + 8 + SinkU32(pos + 4))

\* The offset of avih.streams in the emitted file: RIFF header and 'AVI '
\* (12), LIST header and 'hdrl' (12), avih header (8), six fields.
AvihStreamsPos == m.headerPos + 12 + 12 + 8 + 24

\* C34: for every descriptor list given to WriteHeader, the number of strl
\* LISTs inside hdrl is the number of descriptors in the list, and that
\* number is the value of avih.streams.
C34_StrlPerStream ==
  (nHeaders >= 1 /\ phase # "crashed")
    => /\ SinkU32(AvihStreamsPos) = Len(m.codecData)
       /\ StrlCount(m.headerPos + 12 + 12 + 64) = Len(m.codecData)

\* C35: on the WriterSeeker, a Write of n bytes that follows a Seek to a
\* position p inside the buffer leaves those bytes at [p, p + n) and every
\* byte outside that range as it was; the length stays when p + n is within
\* it and becomes p + n otherwise.
C35_SeekThenWrite ==
  [][ (phase = "seeker" /\ lastOp.op = "Seek" /\ lastOp'.op = "Write")
        => LET p == ws.pos
               n == Len(lastOp'.p)
           IN  /\ Len(ws'.buf) = (IF p + n <= Len(ws.buf) THEN Len(ws.buf) ELSE p + n)
               /\ SubSeq(ws'.buf, p + 1, p + n) = lastOp'.p
               /\ \A i \in 1..Len(ws.buf) :
                    (i <= p \/ i > p + n) => ws'.buf[i] = ws.buf[i] ]_vars

=============================================================================
